---- MODULE Spec2Model ----
(***************************************************************************)
(* kube-dump: export of every listable object of a Kubernetes cluster into *)
(* a directory tree.  Two dumpers live in the repository:                  *)
(*   "kube-dump.py"       src/kube-dump.py       (registry per group+kind) *)
(*   "kube_dump/main.py"  src/kube_dump/main.py  (kind-only deduplication) *)
(* One run of Dumper.dump_all is modelled as a state machine whose steps   *)
(* are cut at the network calls (the only suspension points).  The cluster *)
(* (discovery catalog and collections) is the variable `server`, fixed for *)
(* the run; the status of every call is drawn when the call is issued.     *)
(*                                                                         *)
(* Strings with a separator are kept as sequences of segments:             *)
(*   group_version "apps/v1" is <<"apps","v1">>, core "v1" is <<"v1">>,    *)
(*   a URL path "/apis/apps/v1/deployments" is <<"apis","apps","v1",       *)
(*   "deployments">>, a resource name "nodes/status" is <<"nodes","status">>*)
(* so that split('/') and "'/' in name" are computed, not assumed.         *)
(***************************************************************************)
EXTENDS Naturals, Sequences, FiniteSets, TLC

VARIABLES
    program,            \* which dumper runs
    config,             \* the Dumper's settings: format, improved_yaml, skip_owned, skip
    server,             \* the cluster: groups, resources per group-version, items per list path
    pc,                 \* position of dump_all
    api_groups,         \* kube-dump.py: the groups with their versions, resources, best_resources
    api_group_versions, \* main.py: the group-versions to visit
    resources,          \* main.py: the resource list of the group-version being visited
    gi, vi, ri,         \* loop indices: group (or group-version), version, resource
    cur,                \* the arguments of the running dump_resource and its list answer
    objects,            \* the objects of the running dump_resource not yet visited
    dumped_kinds,       \* main.py: kinds to pass over
    calls,              \* every network call issued, in order, with its status
    files,              \* every file opened for writing, in order, with what was written
    warnings,           \* every warning logged, in order
    failure             \* <<the call that ended the run>>, or <<>>

vars == <<program, config, server, pc, api_groups, api_group_versions, resources, gi, vi, ri,
          cur, objects, dumped_kinds, calls, files, warnings, failure>>

(* ------------------------------ bounds --------------------------------- *)
\* groups in the answer of GET /apis/ (the core group is not among them)
MaxGroups == 2
\* objects held by the whole cluster, in the specification Spec
MaxObjects == 2

(* ------------------------------ helpers -------------------------------- *)
Range(s) == {s[i] : i \in DOMAIN s}

RECURSIVE Concat(_)
Concat(ss) == IF ss = <<>> THEN <<>> ELSE Head(ss) \o Concat(Tail(ss))

\* sequences without repetition over S, of length at most n
RECURSIVE Arrangements(_, _)
Arrangements(S, n) ==
    IF n = 0 THEN {<<>>}
    ELSE LET shorter == Arrangements(S, n - 1)
         IN  shorter \cup {t \in {Append(u, x) : u \in shorter, x \in S} :
                              \A i, j \in DOMAIN t : i # j => t[i] # t[j]}

\* subsets of S with at most n elements
RECURSIVE SubsetsUpTo(_, _)
SubsetsUpTo(S, n) ==
    IF n = 0 THEN {{}}
    ELSE LET smaller == SubsetsUpTo(S, n - 1)
         IN  smaller \cup {T \cup {x} : T \in smaller, x \in S}

KubeDump == "kube-dump.py"
MainPy == "kube_dump/main.py"

CoreGV == <<"v1">>
DeprecatedGV == <<"extensions", "v1beta1">>

(* ------------------------- pure functions ------------------------------ *)
get_api_group_version_resource_path(api_group_version) ==
    IF api_group_version = CoreGV THEN <<"api", "v1">>
    ELSE <<"apis">> \o api_group_version

\* a Python dict as the sequence of its items in insertion order:
\* d[k] = v keeps the position of an existing key and appends a new one
DictSet(d, k, v) ==
    IF \E i \in DOMAIN d : d[i].key = k
    THEN [i \in DOMAIN d |-> IF d[i].key = k THEN [key |-> k, value |-> v] ELSE d[i]]
    ELSE Append(d, [key |-> k, value |-> v])

DictKeys(d) == {d[i].key : i \in DOMAIN d}

DictGet(d, k) == d[CHOOSE i \in DOMAIN d : d[i].key = k].value

(* ----------------------------- the cluster ----------------------------- *)
ResourceType(name, kind, namespaced, verbs) ==
    [name |-> name, kind |-> kind, namespaced |-> namespaced, verbs |-> verbs]

ReadVerbs == {"get", "list", "watch"}

Bindings == ResourceType(<<"bindings">>, "Binding", TRUE, {"create"})
ConfigMaps == ResourceType(<<"configmaps">>, "ConfigMap", TRUE, ReadVerbs)
CoreEvents == ResourceType(<<"events">>, "Event", TRUE, ReadVerbs)
Nodes == ResourceType(<<"nodes">>, "Node", FALSE, ReadVerbs)
NodesStatus == ResourceType(<<"nodes", "status">>, "Node", FALSE, {"get", "patch"})
Deployments == ResourceType(<<"deployments">>, "Deployment", TRUE, ReadVerbs)
StatefulSets == ResourceType(<<"statefulsets">>, "StatefulSet", TRUE, ReadVerbs)
Ingresses == ResourceType(<<"ingresses">>, "Ingress", TRUE, ReadVerbs)
GroupEvents == ResourceType(<<"events">>, "Event", TRUE, ReadVerbs)

CoreResources == <<Bindings, ConfigMaps, CoreEvents, Nodes, NodesStatus>>

\* an APIGroup of the discovery answer
Group(name, versions, preferred) ==
    [name |-> name,
     preferred_version |-> [group_version |-> <<name, preferred>>, version |-> preferred],
     versions |-> [i \in DOMAIN versions |->
                     [group_version |-> <<name, versions[i]>>, version |-> versions[i]]]]

ExtensionsGroup == Group("extensions", <<"v1beta1">>, "v1beta1")
EventsGroup == Group("events.k8s.io", <<"v1">>, "v1")

\* the group-versions a catalog must answer resource discovery for
GroupVersions(groups) ==
    {CoreGV} \cup UNION {{g.versions[i].group_version : i \in DOMAIN g.versions} : g \in Range(groups)}

\* what each group-version may expose
AppsOptions == {<<Deployments>>, <<StatefulSets>>, <<Deployments, StatefulSets>>}

ResourceOptions(gv) ==
    IF gv = CoreGV THEN {CoreResources}
    ELSE IF gv = DeprecatedGV THEN {<<Deployments, Ingresses>>}
    ELSE IF gv[1] = "events.k8s.io" THEN {<<GroupEvents>>}
    ELSE AppsOptions

ResourceMaps(groups) ==
    LET gvs == GroupVersions(groups)
        all == UNION {ResourceOptions(gv) : gv \in gvs}
    IN  {f \in [gvs -> all] : \A gv \in gvs : f[gv] \in ResourceOptions(gv)}

UniqueNames(groups) == \A i, j \in DOMAIN groups : i # j => groups[i].name # groups[j].name

\* objects: metadata is a map that holds the key ownerReferences or does not
Metadata(name, namespace, owner) ==
    LET base == IF namespace = "" THEN [name |-> name]
                ELSE [name |-> name, namespace |-> namespace]
    IN  IF owner = "absent" THEN base
        ELSE IF owner = "empty" THEN ("ownerReferences" :> <<>>) @@ base
        ELSE ("ownerReferences" :> <<"controller">>) @@ base

Object(name, namespace, owner) == [metadata |-> Metadata(name, namespace, owner)]

\* the objects a collection may hold, in the order the server lists them
ObjectPool(namespaced) ==
    IF namespaced
    THEN <<Object("web", "default", "absent"), Object("web", "default", "empty"),
           Object("web", "default", "owned"), Object("web", "prod", "absent"),
           Object("db", "default", "absent")>>
    ELSE <<Object("web", "", "absent"), Object("web", "", "empty"),
           Object("web", "", "owned"), Object("db", "", "absent")>>

\* the listable collections of a catalog, each <<group_version, resource type>>
Collections(catalog) ==
    UNION {{<<gv, r>> : r \in {x \in Range(catalog[gv]) : "list" \in x.verbs}}
              : gv \in DOMAIN catalog}

ListPath(c) == get_api_group_version_resource_path(c[1]) \o c[2].name

ObjectKey(o) ==
    <<o.metadata.name, IF "namespace" \in DOMAIN o.metadata THEN o.metadata.namespace ELSE "">>

\* collections holding at most n objects in all, names unique per namespace
Populations(catalog, n) ==
    LET cs == Collections(catalog)
        slots == UNION {{<<c, o>> : o \in Range(ObjectPool(c[2].namespaced))} : c \in cs}
        ok(P) == \A x, y \in P :
                    (x # y /\ x[1] = y[1]) => ObjectKey(x[2]) # ObjectKey(y[2])
        held(P, path) ==
            LET c == CHOOSE c \in cs : ListPath(c) = path
            IN  SelectSeq(ObjectPool(c[2].namespaced), LAMBDA o : <<c, o>> \in P)
    IN  {[path \in {ListPath(c) : c \in cs} |-> held(P, path)] :
            P \in {Q \in SubsetsUpTo(slots, n) : ok(Q)}}

\* every collection holds the one object "web"
UniformPopulation(catalog) ==
    LET cs == Collections(catalog)
    IN  [path \in {ListPath(c) : c \in cs} |->
            LET c == CHOOSE c \in cs : ListPath(c) = path
            IN  <<Object("web", IF c[2].namespaced THEN "default" ELSE "", "absent")>>]

\* the clusters of the specification Spec: one catalog shape, any population
WriterServers ==
    UNION {UNION {{[groups |-> gs, resources |-> f, items |-> p] : p \in Populations(f, MaxObjects)}
                     : f \in ResourceMaps(gs)}
              : gs \in Arrangements({EventsGroup}, MaxGroups)}

AppsVersions == {"v1beta1", "v1beta2", "v1"}

AppsGroups ==
    UNION {{Group("apps", vs, p) : p \in Range(vs)} : vs \in Arrangements(AppsVersions, 3) \ {<<>>}}

\* the clusters of the specification SpecResolve: any catalog, one population
GroupServers ==
    UNION {{[groups |-> gs, resources |-> f, items |-> UniformPopulation(f)] : f \in ResourceMaps(gs)}
              : gs \in {a \in Arrangements({ExtensionsGroup, EventsGroup,
                                              Group("apps", <<"v1beta1", "v1">>, "v1")}, MaxGroups)
                          : UniqueNames(a)}}

VersionServers ==
    UNION {{[groups |-> <<g>>, resources |-> f, items |-> UniformPopulation(f)] : f \in ResourceMaps(<<g>>)}
              : g \in AppsGroups}

\* the answers of the API server
GroupVersionOfPath(path) == IF path[1] = "api" THEN <<path[2]>> ELSE SubSeq(path, 2, 3)

APIGroupList == server.groups

APIResourceList(path) ==
    LET gv == GroupVersionOfPath(path)
    IN  IF gv \in DOMAIN server.resources THEN server.resources[gv] ELSE <<>>

ObjectList(path) ==
    [apiVersion |-> GroupVersionOfPath(path),
     items |-> IF path \in DOMAIN server.items THEN server.items[path] ELSE <<>>]

\* statuses a call may end with: success, "not acceptable", any other failure
Statuses == {200, 406, 500}

\* a call: its path, Accept header and status; what it asks for (op) and, for a
\* collection or an object, the directory label and kind it is issued for
Call(op, label, kind, path, accept, status) ==
    [op |-> op, label |-> label, kind |-> kind, path |-> path, accept |-> accept,
     status |-> status]

(* ------------------------------- Init ---------------------------------- *)
Configs(formats, improved, owned, skips) ==
    [format : formats, improved_yaml : improved, skip_owned : owned, skip : skips]

InitWith(runs, servers) ==
    /\ \E run \in runs :
          /\ program = run[1]
          /\ config = run[2]
    /\ server \in servers
    /\ pc = "start"
    /\ api_groups = <<>>
    /\ api_group_versions = <<>>
    /\ resources = <<>>
    /\ gi = 1
    /\ vi = 1
    /\ ri = 1
    /\ cur = <<>>
    /\ objects = <<>>
    /\ dumped_kinds = {}
    /\ calls = <<>>
    /\ files = <<>>
    /\ warnings = <<>>
    /\ failure = <<>>

\* every format, fidelity and skip-owned setting; the skip lists are the defaults
Init ==
    InitWith(({KubeDump} \X Configs({"yaml", "json"}, BOOLEAN, BOOLEAN, {{}}))
                 \cup ({MainPy} \X Configs({"yaml", "json"}, BOOLEAN, BOOLEAN, {{"GlobalFelixConfig"}})),
             WriterServers)

\* the default format, fidelity and skip-owned setting; several skip lists
InitResolve ==
    InitWith(({KubeDump} \X Configs({"yaml"}, {TRUE}, {TRUE},
                                    {{}, {"ConfigMap"}, {"_core/ConfigMap"}}))
                 \cup ({MainPy} \X Configs({"yaml"}, {TRUE}, {TRUE},
                                           {{"GlobalFelixConfig"}, {"ConfigMap"}})),
             GroupServers \cup VersionServers)

(* ------------------------ shared by both dumpers ------------------------ *)
OutputDir == "dump"

\* an exception leaves dump_all: nothing runs after it
Abort(call) ==
    /\ pc' = "aborted"
    /\ failure' = <<call>>

\* obj['apiVersion'] = result['apiVersion']; obj['kind'] = resource.kind
Stamp(obj, apiVersion, kind) == ("apiVersion" :> apiVersion) @@ ("kind" :> kind) @@ obj

\* the path of the single-object fetch
ObjectPath(resource_path, list_path, resource, obj_namespace, obj_name) ==
    IF resource.namespaced
    THEN resource_path \o <<"namespaces", obj_namespace>> \o resource.name \o <<obj_name>>
    ELSE list_path \o <<obj_name>>

Owned_NonEmpty(obj) ==
    "ownerReferences" \in DOMAIN obj.metadata /\ obj.metadata.ownerReferences # <<>>

\* 'ownerReferences' in obj['metadata']
Owned(obj) == "ownerReferences" \in DOMAIN obj.metadata

\* an opened file: its path and content; what it was opened for
File(path, content, obj_path) ==
    [path |-> path, content |-> content, resource |-> cur.resource, gv |-> cur.gv,
     label |-> cur.api_group, list_path |-> cur.list_path, obj_path |-> obj_path,
     obj |-> Head(objects)]

Generic(ser, doc) == [ser |-> ser, doc |-> doc]
Native(obj_path) == [ser |-> "native", of |-> obj_path]
Nothing == [ser |-> "nothing"]

(* ----------------------- src/kube-dump.py: dump_all --------------------- *)
core_api_group ==
    [name |-> "",
     preferred_version |-> [group_version |-> CoreGV, version |-> "v1"],
     versions |-> <<[group_version |-> CoreGV, version |-> "v1", resources |-> <<>>]>>,
     best_resources |-> <<>>]

\* the groups kept from the discovery answer, the core group first
KeptGroups(groups) ==
    LET kept == SelectSeq(groups, LAMBDA g : g.preferred_version.group_version # DeprecatedGV)
    IN  <<core_api_group>> \o
        [i \in DOMAIN kept |->
            [name |-> kept[i].name,
             preferred_version |-> kept[i].preferred_version,
             versions |-> [j \in DOMAIN kept[i].versions |->
                             [group_version |-> kept[i].versions[j].group_version,
                              version |-> kept[i].versions[j].version,
                              resources |-> <<>>]],
             best_resources |-> <<>>]]

KD_DiscoverGroups ==
    /\ program = KubeDump
    /\ pc = "start"
    /\ \E status \in Statuses :
        LET call == Call("groups", "", "", <<"apis">>, "json", status)
        IN  /\ calls' = Append(calls, call)
            /\ IF status = 200
               THEN /\ api_groups' = KeptGroups(APIGroupList)
                    /\ pc' = "discover"
                    /\ UNCHANGED failure
               ELSE /\ Abort(call)
                    /\ UNCHANGED api_groups
    /\ UNCHANGED <<program, config, server, api_group_versions, resources, gi, vi, ri, cur,
                   objects, dumped_kinds, files, warnings>>

\* v.resources: no subresource, listable only, each tagged with its group and version
Listable(rs, g, gv) ==
    LET plain == SelectSeq(rs, LAMBDA r : Len(r.name) = 1)
        listed == SelectSeq(plain, LAMBDA r : "list" \in r.verbs)
    IN  [i \in DOMAIN listed |->
            [name |-> listed[i].name, kind |-> listed[i].kind,
             namespaced |-> listed[i].namespaced, verbs |-> listed[i].verbs,
             g |-> g, gv |-> gv]]

KD_DiscoverResources ==
    /\ program = KubeDump
    /\ pc = "discover"
    /\ IF gi > Len(api_groups)
       THEN /\ pc' = "first"
            /\ gi' = 1
            /\ UNCHANGED <<vi, api_groups, calls, failure>>
       ELSE IF vi > Len(api_groups[gi].versions)
       THEN /\ gi' = gi + 1
            /\ vi' = 1
            /\ UNCHANGED <<pc, api_groups, calls, failure>>
       ELSE \E status \in Statuses :
            LET v == api_groups[gi].versions[vi]
                resource_path == get_api_group_version_resource_path(v.group_version)
                call == Call("resources", "", "", resource_path, "json", status)
            IN  /\ calls' = Append(calls, call)
                /\ IF status = 200
                   THEN /\ api_groups' = [api_groups EXCEPT ![gi].versions[vi].resources =
                                             Listable(APIResourceList(resource_path), gi, v.group_version)]
                        /\ vi' = vi + 1
                        /\ UNCHANGED <<pc, gi, failure>>
                   ELSE /\ Abort(call)
                        /\ UNCHANGED <<api_groups, gi, vi>>
    /\ UNCHANGED <<program, config, server, api_group_versions, resources, ri, cur, objects,
                   dumped_kinds, files, warnings>>

RECURSIVE Insert(_, _)
Insert(best_resources, rs) ==
    IF rs = <<>> THEN best_resources
    ELSE Insert(DictSet(best_resources, Head(rs).kind, Head(rs)), Tail(rs))

RECURSIVE InsertNew(_, _)
InsertNew(best_resources, rs) ==
    IF rs = <<>> THEN best_resources
    ELSE InsertNew(IF Head(rs).kind \in DictKeys(best_resources) THEN best_resources
                   ELSE DictSet(best_resources, Head(rs).kind, Head(rs)),
                   Tail(rs))

AssumeLatest_FirstWins(g) ==
    InsertNew(<<>>, Concat([i \in DOMAIN g.versions |-> g.versions[i].resources]))

\* "first we assume that resources of latest version are best"
AssumeLatest(g) ==
    Insert(<<>>, Concat([i \in DOMAIN g.versions |-> g.versions[i].resources]))

\* g.preferred_version was rebound to the version of the same group_version
PreferredVersion(g) ==
    LET same == {i \in DOMAIN g.versions :
                    g.versions[i].group_version = g.preferred_version.group_version}
    IN  g.versions[CHOOSE i \in same : \A j \in same : j <= i]

UsePreferred_Skipped(g) == g.best_resources

\* "if there is preferred version of resource, use it"
UsePreferred(g) == Insert(g.best_resources, PreferredVersion(g).resources)

KD_FirstPass ==
    /\ program = KubeDump
    /\ pc = "first"
    /\ api_groups' = [i \in DOMAIN api_groups |->
                         [api_groups[i] EXCEPT !.best_resources = AssumeLatest(api_groups[i])]]
    /\ pc' = "preferred"
    /\ UNCHANGED <<program, config, server, api_group_versions, resources, gi, vi, ri, cur,
                   objects, dumped_kinds, calls, files, warnings, failure>>

KD_PreferredPass ==
    /\ program = KubeDump
    /\ pc = "preferred"
    /\ api_groups' = [i \in DOMAIN api_groups |->
                         [api_groups[i] EXCEPT !.best_resources = UsePreferred(api_groups[i])]]
    /\ pc' = "dump"
    /\ UNCHANGED <<program, config, server, api_group_versions, resources, gi, vi, ri, cur,
                   objects, dumped_kinds, calls, files, warnings, failure>>

\* the directory label of a resource's group
ApiGroup(resource) == IF resource.g = 1 THEN "_core" ELSE resource.gv[1]

GK(api_group, kind) == api_group \o "/" \o kind

Skipped_ByKind(api_group, resource) == resource.kind \in config.skip

\* gk in self.skip_gks
Skipped(api_group, resource) == GK(api_group, resource.kind) \in config.skip

KD_NextResource ==
    /\ program = KubeDump
    /\ pc = "dump"
    /\ IF gi > Len(api_groups)
       THEN /\ pc' = "done"
            /\ UNCHANGED <<gi, ri, cur, objects, calls, failure>>
       ELSE IF ri > Len(api_groups[gi].best_resources)
       THEN /\ gi' = gi + 1
            /\ ri' = 1
            /\ UNCHANGED <<pc, cur, objects, calls, failure>>
       ELSE LET resource == api_groups[gi].best_resources[ri].value
                api_group == ApiGroup(resource)
                resource_path == get_api_group_version_resource_path(resource.gv)
                list_path == resource_path \o resource.name
            IN  IF Skipped(api_group, resource)
                THEN /\ ri' = ri + 1
                     /\ UNCHANGED <<pc, gi, cur, objects, calls, failure>>
                ELSE \E status \in Statuses :
                     LET call == Call("list", api_group, resource.kind, list_path, "json", status)
                         result == ObjectList(list_path)
                     IN  /\ calls' = Append(calls, call)
                         /\ IF status = 200
                            THEN /\ cur' = [api_group |-> api_group, resource_path |-> resource_path,
                                            resource |-> resource, list_path |-> list_path,
                                            gv |-> resource.gv, apiVersion |-> result.apiVersion]
                                 /\ objects' = result.items
                                 /\ pc' = "objects"
                                 /\ UNCHANGED <<gi, ri, failure>>
                            ELSE /\ Abort(call)
                                 /\ UNCHANGED <<gi, ri, cur, objects>>
    /\ UNCHANGED <<program, config, server, api_groups, api_group_versions, resources, vi,
                   dumped_kinds, files, warnings>>

\* object_filepath + '.yaml' under format 'yaml', + '.json' under format 'json'
KD_Extension == IF config.format = "yaml" THEN ".yaml" ELSE ".json"

KD_FilePath_NoGroup(obj_namespace, obj_name) ==
    <<OutputDir, obj_namespace, cur.resource.kind, obj_name \o KD_Extension>>

KD_FilePath(obj_namespace, obj_name) ==
    <<OutputDir, obj_namespace, cur.api_group, cur.resource.kind, obj_name \o KD_Extension>>

KD_ServerYaml_AnyFormat == config.improved_yaml

\* the file is filled with the server's own YAML
KD_ServerYaml == config.format = "yaml" /\ config.improved_yaml

KD_Recoverable_Never(status) == FALSE

KD_Recoverable_Always(status) == TRUE

\* the one failure of the single-object fetch that is handled
KD_Recoverable(status) == status = 406

KD_DumpObject ==
    /\ program = KubeDump
    /\ pc = "objects"
    /\ IF objects = <<>>
       THEN /\ pc' = "dump"
            /\ ri' = ri + 1
            /\ UNCHANGED <<objects, calls, files, warnings, failure>>
       ELSE LET resource == cur.resource
                obj_name == Head(objects).metadata.name
                obj_namespace == IF resource.namespaced THEN Head(objects).metadata.namespace ELSE "_"
                obj == Stamp(Head(objects), cur.apiVersion, resource.kind)
                path == KD_FilePath(obj_namespace, obj_name)
                obj_path == ObjectPath(cur.resource_path, cur.list_path, resource,
                                       obj_namespace, obj_name)
            IN  IF config.skip_owned /\ Owned(obj)
                THEN /\ objects' = Tail(objects)
                     /\ UNCHANGED <<pc, ri, calls, files, warnings, failure>>
                ELSE IF KD_ServerYaml
                THEN \E status \in Statuses :
                     LET call == Call("object", cur.api_group, resource.kind, obj_path,
                                     "application/yaml", status)
                     IN  /\ calls' = Append(calls, call)
                         /\ IF status = 200
                            THEN /\ files' = Append(files, File(path, Native(obj_path), obj_path))
                                 /\ objects' = Tail(objects)
                                 /\ UNCHANGED <<pc, ri, warnings, failure>>
                            ELSE IF KD_Recoverable(status)
                            THEN /\ warnings' = Append(warnings, obj_path)
                                 /\ files' = Append(files, File(path, Generic("yaml", obj), obj_path))
                                 /\ objects' = Tail(objects)
                                 /\ UNCHANGED <<pc, ri, failure>>
                            ELSE /\ files' = Append(files, File(path, Nothing, obj_path))
                                 /\ Abort(call)
                                 /\ UNCHANGED <<ri, objects, warnings>>
                ELSE /\ files' = Append(files, File(path, Generic(config.format, obj), obj_path))
                     /\ objects' = Tail(objects)
                     /\ UNCHANGED <<pc, ri, calls, warnings, failure>>
    /\ UNCHANGED <<program, config, server, api_groups, api_group_versions, resources, gi, vi,
                   cur, dumped_kinds>>

(* -------------------- src/kube_dump/main.py: dump_all ------------------- *)
RECURSIVE RemoveFirst(_, _)
RemoveFirst(s, x) ==
    IF s = <<>> THEN <<>>
    ELSE IF Head(s) = x THEN Tail(s)
    ELSE <<Head(s)>> \o RemoveFirst(Tail(s), x)

VisitOrder_NoDemotion(groups) ==
    Append([i \in DOMAIN groups |-> groups[i].preferred_version.group_version], CoreGV)

\* the preferred group-versions, then "v1", the deprecated one moved to the end
VisitOrder(groups) ==
    LET preferred == [i \in DOMAIN groups |-> groups[i].preferred_version.group_version]
        all == Append(preferred, CoreGV)
    IN  IF DeprecatedGV \in Range(all)
        THEN Append(RemoveFirst(all, DeprecatedGV), DeprecatedGV)
        ELSE all

M_DiscoverGroups ==
    /\ program = MainPy
    /\ pc = "start"
    /\ \E status \in Statuses :
        LET call == Call("groups", "", "", <<"apis">>, "json", status)
        IN  /\ calls' = Append(calls, call)
            /\ IF status = 200
               THEN /\ api_group_versions' = VisitOrder(APIGroupList)
                    /\ dumped_kinds' = config.skip
                    /\ pc' = "version"
                    /\ UNCHANGED failure
               ELSE /\ Abort(call)
                    /\ UNCHANGED <<api_group_versions, dumped_kinds>>
    /\ UNCHANGED <<program, config, server, api_groups, resources, gi, vi, ri, cur, objects,
                   files, warnings>>

M_DiscoverResources ==
    /\ program = MainPy
    /\ pc = "version"
    /\ IF gi > Len(api_group_versions)
       THEN /\ pc' = "done"
            /\ UNCHANGED <<resources, ri, calls, failure>>
       ELSE \E status \in Statuses :
            LET resource_path == get_api_group_version_resource_path(api_group_versions[gi])
                call == Call("resources", "", "", resource_path, "json", status)
            IN  /\ calls' = Append(calls, call)
                /\ IF status = 200
                   THEN /\ resources' = APIResourceList(resource_path)
                        /\ ri' = 1
                        /\ pc' = "resource"
                        /\ UNCHANGED failure
                   ELSE /\ Abort(call)
                        /\ UNCHANGED <<resources, ri>>
    /\ UNCHANGED <<program, config, server, api_groups, api_group_versions, gi, vi, cur, objects,
                   dumped_kinds, files, warnings>>

M_PassedOver_NoDedup(resource) == "list" \notin resource.verbs

\* a resource dump_all passes over
M_PassedOver(resource) == "list" \notin resource.verbs \/ resource.kind \in dumped_kinds

M_NextResource ==
    /\ program = MainPy
    /\ pc = "resource"
    /\ IF ri > Len(resources)
       THEN /\ gi' = gi + 1
            /\ pc' = "version"
            /\ UNCHANGED <<ri, cur, objects, calls, failure>>
       ELSE LET resource == resources[ri]
                resource_path == get_api_group_version_resource_path(api_group_versions[gi])
                list_path == resource_path \o resource.name
            IN  IF M_PassedOver(resource)
                THEN /\ ri' = ri + 1
                     /\ UNCHANGED <<pc, gi, cur, objects, calls, failure>>
                ELSE \E status \in Statuses :
                     LET call == Call("list", "", resource.kind, list_path, "json", status)
                         result == ObjectList(list_path)
                     IN  /\ calls' = Append(calls, call)
                         /\ IF status = 200
                            THEN /\ cur' = [api_group |-> "", resource_path |-> resource_path,
                                            resource |-> resource, list_path |-> list_path,
                                            gv |-> api_group_versions[gi],
                                            apiVersion |-> result.apiVersion]
                                 /\ objects' = result.items
                                 /\ pc' = "objects"
                                 /\ UNCHANGED <<gi, ri, failure>>
                            ELSE /\ Abort(call)
                                 /\ UNCHANGED <<gi, ri, cur, objects>>
    /\ UNCHANGED <<program, config, server, api_groups, api_group_versions, resources, vi,
                   dumped_kinds, files, warnings>>

\* use_yaml is format = "yaml"
M_Extension == IF config.format = "yaml" THEN ".yaml" ELSE ".json"

M_FilePath(obj_namespace, obj_name) ==
    <<OutputDir, obj_namespace, cur.resource.kind, obj_name \o M_Extension>>

\* the file is filled with the server's own YAML
M_ServerYaml == config.format = "yaml" /\ config.improved_yaml

M_DumpObject ==
    /\ program = MainPy
    /\ pc = "objects"
    /\ IF objects = <<>>
       THEN /\ dumped_kinds' = dumped_kinds \cup {cur.resource.kind}
            /\ ri' = ri + 1
            /\ pc' = "resource"
            /\ UNCHANGED <<objects, calls, files, warnings, failure>>
       ELSE LET resource == cur.resource
                obj_name == Head(objects).metadata.name
                obj_namespace == IF resource.namespaced THEN Head(objects).metadata.namespace ELSE "_"
                obj == Stamp(Head(objects), cur.apiVersion, resource.kind)
                path == M_FilePath(obj_namespace, obj_name)
                obj_path == ObjectPath(cur.resource_path, cur.list_path, resource,
                                       obj_namespace, obj_name)
            IN  IF config.skip_owned /\ Owned(Head(objects))
                THEN /\ objects' = Tail(objects)
                     /\ UNCHANGED <<pc, ri, dumped_kinds, calls, files, warnings, failure>>
                ELSE IF M_ServerYaml
                THEN \E status \in Statuses :
                     LET call == Call("object", cur.api_group, resource.kind, obj_path,
                                     "application/yaml", status)
                     IN  /\ calls' = Append(calls, call)
                         /\ IF status = 200
                            THEN /\ files' = Append(files, File(path, Native(obj_path), obj_path))
                                 /\ objects' = Tail(objects)
                                 /\ UNCHANGED <<pc, ri, dumped_kinds, warnings, failure>>
                            ELSE /\ files' = Append(files, File(path, Nothing, obj_path))
                                 /\ Abort(call)
                                 /\ UNCHANGED <<ri, objects, dumped_kinds, warnings>>
                ELSE /\ files' = Append(files, File(path, Generic(config.format, obj), obj_path))
                     /\ objects' = Tail(objects)
                     /\ UNCHANGED <<pc, ri, dumped_kinds, calls, warnings, failure>>
    /\ UNCHANGED <<program, config, server, api_groups, api_group_versions, resources, gi, vi, cur>>

(* --------------------------- specifications ---------------------------- *)
Next ==
    \/ KD_DiscoverGroups
    \/ KD_DiscoverResources
    \/ KD_FirstPass
    \/ KD_PreferredPass
    \/ KD_NextResource
    \/ KD_DumpObject
    \/ M_DiscoverGroups
    \/ M_DiscoverResources
    \/ M_NextResource
    \/ M_DumpObject

\* the object writer: every setting, small catalogs, any collections
Spec == Init /\ [][Next]_vars

\* the kind resolver: default settings, any catalog, one object per collection
SpecResolve == InitResolve /\ [][Next]_vars

(* ------------------------------ properties ----------------------------- *)
\* the document dump_resource serializes: the listed item with the collection's
\* apiVersion and the resource's kind
ListedDocument(f) ==
    [apiVersion |-> f.gv, kind |-> f.resource.kind, metadata |-> f.obj.metadata]

FileName(f) == f.path[Len(f.path)]

NotAcceptable(c) == c.op = "object" /\ c.status = 406

\* C4: kube-dump.py, YAML with improved fidelity: when the single-object fetch of an
\* object answers 406, the object's .yaml file is produced with the generic
\* serialization of the listed document (apiVersion and kind stamped), one warning
\* is logged for it, and the run does not end on that call.
C4_NotAcceptableFallsBack ==
    program = KubeDump =>
        /\ \A i \in DOMAIN calls :
              NotAcceptable(calls[i]) =>
                  /\ Cardinality({j \in DOMAIN files : files[j].obj_path = calls[i].path}) = 1
                  /\ \A j \in DOMAIN files :
                        files[j].obj_path = calls[i].path =>
                            /\ files[j].content = [ser |-> "yaml", doc |-> ListedDocument(files[j])]
                            /\ FileName(files[j]) = files[j].obj.metadata.name \o ".yaml"
                  /\ Cardinality({k \in DOMAIN warnings : warnings[k] = calls[i].path}) = 1
                  /\ failure # <<calls[i]>>
        /\ Len(warnings) = Cardinality({i \in DOMAIN calls : NotAcceptable(calls[i])})

C4_Witness ==
    /\ program = KubeDump
    /\ pc = "done"
    /\ \E i \in DOMAIN calls, j \in DOMAIN files :
          /\ NotAcceptable(calls[i])
          /\ files[j].obj_path = calls[i].path
          /\ j < Len(files)

\* C5: with skip-owned on, an object whose metadata holds the key ownerReferences
\* (whatever its value) gets no file and no single-object fetch; every other
\* visited object, and every object when skip-owned is off, gets its file opened.
C5_SkipOwned ==
    [][(pc = "objects" /\ objects # <<>>) =>
          IF config.skip_owned /\ "ownerReferences" \in DOMAIN Head(objects).metadata
          THEN files' = files /\ calls' = calls
          ELSE /\ Len(files') = Len(files) + 1
               /\ files'[Len(files')].obj = Head(objects)]_vars

C5_Witness ==
    /\ pc = "done"
    /\ config.skip_owned
    /\ Len(files) = 1
    /\ \E p \in DOMAIN server.items :
          /\ Len(server.items[p]) = 2
          /\ "ownerReferences" \in DOMAIN server.items[p][1].metadata
          /\ server.items[p][1].metadata.ownerReferences = <<>>
          /\ files[1].list_path = p
          /\ files[1].obj = server.items[p][2]

\* C6: a single-object fetch is issued only under YAML with improved fidelity;
\* under JSON or fast fidelity every file holds the generic serialization of the
\* listed document and its collection was listed by exactly one call; the file
\* extension is the configured format.
C6_FetchOnlyForImprovedYaml ==
    /\ \A i \in DOMAIN calls :
          calls[i].op = "object" => (config.format = "yaml" /\ config.improved_yaml)
    /\ (config.format = "json" \/ ~config.improved_yaml) =>
          \A j \in DOMAIN files :
              /\ files[j].content = [ser |-> config.format, doc |-> ListedDocument(files[j])]
              /\ Cardinality({i \in DOMAIN calls : calls[i].path = files[j].list_path}) = 1
    /\ \A j \in DOMAIN files :
          FileName(files[j]) = files[j].obj.metadata.name \o "." \o config.format

C6_Witness ==
    /\ pc = "done"
    /\ config.format = "json"
    /\ config.improved_yaml
    /\ Len(files) = 2

\* a failed call other than a 406 on a single-object fetch
Fatal(c) == c.status # 200 /\ ~NotAcceptable(c)

\* C8: a failed call other than a 406 on a single-object fetch is the last call of
\* the run and ends it: nothing runs in the aborted state, and the files opened so
\* far stay as they are.
C8_AbortOnError ==
    /\ [](\A i \in DOMAIN calls :
             Fatal(calls[i]) =>
                 /\ i = Len(calls)
                 /\ pc = "aborted"
                 /\ failure = <<calls[i]>>)
    /\ [][/\ pc # "aborted"
          /\ Len(files') >= Len(files)
          /\ \A j \in DOMAIN files : files'[j] = files[j]]_vars

C8_Witness ==
    /\ pc = "aborted"
    /\ failure[1].status = 500
    /\ failure[1].op = "object"
    /\ Len(files) = 2
    /\ files[1].content.ser # "nothing"

\* C10: kube-dump.py never opens the same output path twice in one run.
C10_PathsOpenedOnce ==
    program = KubeDump =>
        \A i, j \in DOMAIN files : i # j => files[i].path # files[j].path

C10_Witness ==
    /\ program = KubeDump
    /\ pc = "done"
    /\ \E i, j \in DOMAIN files :
          /\ files[i].obj.metadata = files[j].obj.metadata
          /\ files[i].resource.kind = files[j].resource.kind
          /\ files[i].label # files[j].label

\* the cluster exposes kind under group_version: listable and no subresource
Exposes(group_version, kind) ==
    /\ group_version \in DOMAIN server.resources
    /\ \E r \in Range(server.resources[group_version]) :
          r.kind = kind /\ "list" \in r.verbs /\ Len(r.name) = 1

Kinds == {r.kind : r \in UNION {Range(server.resources[gv]) : gv \in DOMAIN server.resources}}

\* the versions of group g that expose kind, as indices in discovery order
Exposing(g, kind) == {j \in DOMAIN g.versions : Exposes(g.versions[j].group_version, kind)}

Preferred(g) == g.preferred_version.group_version

RegistryBuilt == program = KubeDump /\ pc \in {"dump", "objects", "done"}

ListPathsOf(group_version, kind) ==
    {get_api_group_version_resource_path(group_version) \o r.name :
        r \in {x \in Range(server.resources[group_version]) : x.kind = kind}}

\* C1: kube-dump.py: for a kind exposed by two or more versions of a group, the
\* preferred one among them, the registry holds the preferred version's resource
\* type; no collection of the kind is listed under another version of the group and
\* every file of the kind written for the group comes from the preferred version.
C1_PreferredVersionWins ==
    program = KubeDump =>
        \A g \in DOMAIN api_groups : \A kind \in Kinds :
            LET group == api_groups[g]
                versions == {group.versions[j].group_version : j \in DOMAIN group.versions}
            IN  (Cardinality(Exposing(group, kind)) >= 2 /\ Exposes(Preferred(group), kind)) =>
                    /\ RegistryBuilt =>
                          /\ kind \in DictKeys(group.best_resources)
                          /\ DictGet(group.best_resources, kind).gv = Preferred(group)
                    /\ \A gv \in versions \ {Preferred(group)} : \A i \in DOMAIN calls :
                          calls[i].path \notin ListPathsOf(gv, kind)
                    /\ \A j \in DOMAIN files :
                          (files[j].resource.kind = kind /\ files[j].gv \in versions) =>
                              /\ files[j].gv = Preferred(group)
                              /\ files[j].content.ser = "native" =>
                                    SubSeq(files[j].content.of, 1, 3) =
                                        get_api_group_version_resource_path(Preferred(group))

C1_Witness ==
    /\ program = KubeDump
    /\ pc = "done"
    /\ \E g \in DOMAIN api_groups : \E kind \in Kinds :
          LET group == api_groups[g]
          IN  /\ Exposes(Preferred(group), kind)
              /\ \E j \in Exposing(group, kind) :
                    /\ group.versions[j].group_version # Preferred(group)
                    /\ \A k \in Exposing(group, kind) : k <= j
              /\ \E f \in DOMAIN files :
                    files[f].resource.kind = kind /\ files[f].gv = Preferred(group)

\* C9: kube-dump.py: for a kind exposed by several versions of a group and not by
\* the preferred one, the registry holds the resource type of the last exposing
\* version in discovery order; the second pass leaves the entries of the kinds the
\* preferred version does not expose as they are; the finished registry holds one
\* entry for each kind a group exposes and does not change while resources are dumped.
C9_LastVersionWins ==
    /\ [](RegistryBuilt =>
             \A g \in DOMAIN api_groups :
                 LET group == api_groups[g]
                 IN  /\ Cardinality(DictKeys(group.best_resources)) = Len(group.best_resources)
                     /\ DictKeys(group.best_resources) =
                            {kind \in Kinds : Exposing(group, kind) # {}}
                     /\ \A kind \in Kinds :
                           (Cardinality(Exposing(group, kind)) >= 2
                               /\ ~Exposes(Preferred(group), kind)) =>
                               \E j \in Exposing(group, kind) :
                                   /\ \A k \in Exposing(group, kind) : k <= j
                                   /\ DictGet(group.best_resources, kind).gv =
                                          group.versions[j].group_version)
    /\ [][/\ (program = KubeDump /\ pc = "preferred") =>
                \A g \in DOMAIN api_groups :
                    \A kind \in DictKeys(api_groups[g].best_resources) :
                        ~Exposes(Preferred(api_groups[g]), kind) =>
                            /\ kind \in DictKeys(api_groups'[g].best_resources)
                            /\ DictGet(api_groups'[g].best_resources, kind) =
                                   DictGet(api_groups[g].best_resources, kind)
          /\ RegistryBuilt => api_groups' = api_groups]_vars

C9_Witness ==
    /\ RegistryBuilt
    /\ pc = "done"
    /\ \E g \in DOMAIN api_groups : \E kind \in Kinds :
          LET group == api_groups[g]
          IN  /\ Cardinality(Exposing(group, kind)) >= 2
              /\ ~Exposes(Preferred(group), kind)
              /\ Preferred(group) = group.versions[Len(group.versions)].group_version
              /\ \E f \in DOMAIN files :
                    files[f].resource.kind = kind /\ files[f].gv # Preferred(group)

ListCalls == {i \in DOMAIN calls : calls[i].op = "list"}

\* C3 as stated: no two collections of the same kind are listed in one run.
C3_KindListedOnce ==
    \A i, j \in ListCalls : i # j => calls[i].kind # calls[j].kind

\* C3, amended: kube_dump/main.py lists at most one collection per kind;
\* kube-dump.py lists at most one collection per group directory and kind.
C3_KindListedOncePerKey ==
    \A i, j \in ListCalls :
        i # j => IF program = MainPy THEN calls[i].kind # calls[j].kind
                 ELSE <<calls[i].label, calls[i].kind>> # <<calls[j].label, calls[j].kind>>

C3_Witness ==
    /\ program = MainPy
    /\ pc = "done"
    /\ Exposes(CoreGV, "Event")
    /\ Exposes(<<"events.k8s.io", "v1">>, "Event")
    /\ Cardinality({i \in ListCalls : calls[i].kind = "Event"}) = 1
    /\ \E j \in DOMAIN files : files[j].resource.kind = "Event"

\* no ConfigMap is written and no single-object fetch is issued for one
NoConfigMap ==
    /\ \A j \in DOMAIN files : files[j].resource.kind # "ConfigMap"
    /\ \A i \in DOMAIN calls : calls[i].op = "object" => calls[i].kind # "ConfigMap"

\* C2 as stated: with the kind "ConfigMap" in the skip list no ConfigMap is written
\* and no single-object fetch is issued for one.
C2_KindInSkipList == "ConfigMap" \in config.skip => NoConfigMap

\* C2, amended: with the entry the dumper compares in the skip list, the kind
\* "ConfigMap" for kube_dump/main.py and the group/kind "_core/ConfigMap" for
\* kube-dump.py, no ConfigMap is written and no single-object fetch is issued for one.
C2_SkipListEntry ==
    (\/ program = MainPy /\ "ConfigMap" \in config.skip
     \/ program = KubeDump /\ "_core/ConfigMap" \in config.skip) => NoConfigMap

C2_Witness ==
    /\ program = KubeDump
    /\ "_core/ConfigMap" \in config.skip
    /\ pc = "done"
    /\ \E p \in DOMAIN server.items : p = <<"api", "v1", "configmaps">> /\ server.items[p] # <<>>
    /\ \E j \in DOMAIN files : files[j].label = "_core"

Deprecated(f) == f.gv = DeprecatedGV

\* the group-versions a dumper asks for their resources
Consulted ==
    IF program = KubeDump THEN DOMAIN server.resources
    ELSE {CoreGV} \cup {Preferred(g) : g \in Range(server.groups)}

\* C7 as stated: a kind exposed by extensions/v1beta1 and by another group-version
\* is never written from extensions/v1beta1.
C7_DeprecatedNeverSource ==
    \A kind \in Kinds :
        (/\ Exposes(DeprecatedGV, kind)
         /\ \E gv \in DOMAIN server.resources \ {DeprecatedGV} : Exposes(gv, kind)) =>
            \A j \in DOMAIN files : files[j].resource.kind = kind => ~Deprecated(files[j])

\* C7, amended: a kind exposed by extensions/v1beta1 and by another group-version
\* the dumper consults (kube_dump/main.py consults core v1 and the preferred version
\* of each group only) is never written from extensions/v1beta1.
C7_DeprecatedNeverShadows ==
    \A kind \in Kinds :
        (/\ Exposes(DeprecatedGV, kind)
         /\ \E gv \in Consulted \ {DeprecatedGV} : Exposes(gv, kind)) =>
            \A j \in DOMAIN files : files[j].resource.kind = kind => ~Deprecated(files[j])

C7_Witness ==
    /\ program = MainPy
    /\ pc = "done"
    /\ Len(server.groups) = 2
    /\ server.groups[1].name = "extensions"
    /\ \E i, j \in DOMAIN files :
          /\ files[i].resource.kind = "Deployment"
          /\ files[i].gv = <<"apps", "v1">>
          /\ files[j].resource.kind = "Ingress"
          /\ Deprecated(files[j])

====
